---- MODULE Spec2Model ----
(***************************************************************************)
(* The agent <-> backend command relay of Support_System_Monitoring.       *)
(*                                                                         *)
(*   backend/main.py      the relay: a registry of Agent Records kept in   *)
(*                        agents_db.json and the per-agent command queues  *)
(*                        kept in commands_db.json; every handler loads    *)
(*                        the whole file, changes its copy and writes the  *)
(*                        whole file back.                                 *)
(*   sys_agent/agent.py   the agent loop (agent "A" runs this one).        *)
(*   modules/agent_worker.py  the service agent loop (agent "B").          *)
(*                                                                         *)
(* Spec      the relay serving one request at a time (every handler is one *)
(*           step), with both agent loops and arbitrary other callers.     *)
(* SpecConc  the relay serving requests on its worker threads: the         *)
(*           handlers are plain `def` endpoints, which FastAPI runs in a   *)
(*           thread pool, so the load / modify / save steps of two         *)
(*           requests interleave.                                          *)
(***************************************************************************)
EXTENDS Integers, Sequences, FiniteSets, TLC

\* ------------------------------------------------------------------ bounds
\* send_command requests issued in one behaviour
MaxCmds == 2
\* the clock stops being read when it shows MaxTime
MaxTime == 2
\* SpecConcQueues: a drain that would return commands starts only while the
\* agent has been handed fewer than MaxDelivered (a stale writer can put a
\* drained command back any number of times)
MaxDelivered == 2
\* SpecIdentity: uuid4 is asked for at most MaxIds ids on one machine
MaxIds == 2
\* SpecIdentity: the identity function is called at most MaxCalls times on one
\* machine
MaxCalls == 3
\* SpecWorker: the wait between two iterations is SleepIncrements sleeps of
\* one second (30 in the code)
SleepIncrements == 2

\* ------------------------------------------------------------ input domains
Agents == {"A", "B"}
IPs == {"172.16.1.41", "172.16.1.42"}
Threads == {"t1", "t2"}

\* A python dict is a function; {} is the function with the empty domain.
EmptyDict == <<>>

Put(d, k, v) == [x \in (DOMAIN d) \cup {k} |-> IF x = k THEN v ELSE d[x]]

Range(s) == {s[i] : i \in DOMAIN s}

\* --------------------------------------------------------------- the store
\* A file is absent (never written), empty (opened with "w": truncated, the
\* buffered text not yet flushed), corrupt (bytes that are no JSON document)
\* or valid (holds the dump of `data`); len is its length in bytes.
AbsentFile == [kind |-> "absent", data |-> EmptyDict, len |-> 0]
TruncatedFile == [kind |-> "empty", data |-> EmptyDict, len |-> 0]
CorruptFile(n) == [kind |-> "corrupt", data |-> EmptyDict, len |-> n]
ValidFile(d, n) == [kind |-> "valid", data |-> d, len |-> n]

\* load_json: {} when the file does not exist or json.load raises.
load_json(f) == IF f.kind = "valid" THEN f.data ELSE EmptyDict

\* save_json as one step: open(path, "w") and json.dump, nothing in between;
\* n is the length of the dump.
save_json(d, n) == ValidFile(d, n)

\* save_json, first half: open(path, "w") creates or truncates the file.
save_open(f) == TruncatedFile

\* save_json, second half: the dump reaches the file at offset 0.  Into an
\* empty file it is the whole content.  When another writer's dump arrived
\* since this writer truncated, the bytes are laid over the older ones: the
\* result is this dump when it is at least as long, and otherwise this dump
\* followed by the tail of the older bytes, which json.load rejects.  `exact`
\* says that n is the byte count; otherwise n is the nominal length of a dump
\* holding floats, and two dumps of the same nominal length compare either way.
save_close(f, d, n, exact) ==
    IF f.len < n THEN {ValidFile(d, n)}
    ELSE IF f.len > n THEN {CorruptFile(f.len)}
    ELSE IF exact THEN {ValidFile(d, n)}
    ELSE {ValidFile(d, n), CorruptFile(f.len)}

\* json.dump(data, f, indent=4) of the queues: "{}" is 2 bytes, every agent
\* key adds 13, a non-empty list 4 and every command its own lines.
CommandLen(command) == IF command.type = "quick_assist" THEN 82 ELSE 87

RECURSIVE QueueLen(_)
QueueLen(q) == IF q = <<>> THEN 0 ELSE CommandLen(Head(q)) + QueueLen(Tail(q))

RECURSIVE SumOver(_, _)
SumOver(d, keys) ==
    IF keys = {} THEN 0
    ELSE LET k == CHOOSE x \in keys : TRUE
         IN (13 + (IF d[k] = <<>> THEN 0 ELSE 4 + QueueLen(d[k]))) + SumOver(d, keys \ {k})

CommandsLen(cmds) == 2 + SumOver(cmds, DOMAIN cmds)

\* The dump of the registry: about 550 bytes a record; the digits of last_seen
\* and of the metrics make two dumps of as many records differ by a few bytes.
RegistryLen(db) == 2 + 550 * Cardinality(DOMAIN db)

\* ------------------------------------------------------------ relay models
AgentUpdateFields ==
    {"agent_id", "hostname", "username", "os", "ip_address", "metrics", "device_info"}

CommandResponseFields == {"agent_id", "command_id", "output", "success"}

\* pydantic: a body lacking a required field is answered 422 before the
\* handler runs.
ValidBody(body, fields) == fields \subseteq DOMAIN body

PRESENCE_WINDOW == 30

\* The record update_agent_info stores under data.agent_id.
AgentRecord(data, t) ==
    [agent_id |-> data.agent_id, hostname |-> data.hostname,
     username |-> data.username, os |-> data.os,
     ip_address |-> data.ip_address, metrics |-> data.metrics,
     device_info |-> data.device_info, last_seen |-> t]

\* A relay that kept an agent's first record instead of overwriting it.
UpdatedDbKeepFirst(db, data, t) ==
    IF data.agent_id \in DOMAIN db THEN db
    ELSE Put(db, data.agent_id, AgentRecord(data, t))

\* update_agent_info, the dict after `db[data.agent_id] = {...}`.
UpdatedDb(db, data, t) == Put(db, data.agent_id, AgentRecord(data, t))

\* A relay whose drain for another agent also handed out A's queue.
PendingAll(cmds, agent_id) ==
    IF "A" \in DOMAIN cmds /\ agent_id # "A" THEN cmds["A"] \o cmds[agent_id]
    ELSE cmds[agent_id]

\* fetch_commands: `pending = cmds[agent_id]`.
Pending(cmds, agent_id) == cmds[agent_id]

\* fetch_commands: the dict after `cmds[agent_id] = []`.
Cleared(cmds, agent_id) == [cmds EXCEPT ![agent_id] = <<>>]

\* A relay that dropped a command whose id is already queued for the agent.
SameId(q, command) == \E i \in DOMAIN q : q[i].id = command.id

EnqueuedDedup(cmds, agent_id, command) ==
    IF agent_id \in DOMAIN cmds /\ SameId(cmds[agent_id], command) THEN cmds
    ELSE Put(cmds, agent_id,
             Append(IF agent_id \in DOMAIN cmds THEN cmds[agent_id] ELSE <<>>, command))

\* A relay that put a new command at the head of the queue.
EnqueuedFront(cmds, agent_id, command) ==
    Put(cmds, agent_id,
        <<command>> \o (IF agent_id \in DOMAIN cmds THEN cmds[agent_id] ELSE <<>>))

\* send_command: the dict after the `if agent_id not in cmds` and the append.
Enqueued(cmds, agent_id, command) ==
    Put(cmds, agent_id,
        Append(IF agent_id \in DOMAIN cmds THEN cmds[agent_id] ELSE <<>>, command))

\* A relay that still counted an agent online a whole window after its push.
DeviceInclusive(agent_id, info, t) ==
    [agent_id |-> agent_id, hostname |-> info.hostname,
     username |-> info.username, ip_address |-> info.ip_address,
     os |-> info.os, online |-> (t - info.last_seen) <= PRESENCE_WINDOW]

\* list_agents: one device per record, online from last_seen at time t.
Device(agent_id, info, t) ==
    [agent_id |-> agent_id, hostname |-> info.hostname,
     username |-> info.username, ip_address |-> info.ip_address,
     os |-> info.os, online |-> (t - info.last_seen) < PRESENCE_WINDOW]

Devices(db, t) == {Device(a, db[a], t) : a \in DOMAIN db}

\* ----------------------------------------------------------------- state
VARIABLES
    agentsDb,    \* DB_FILE, agents_db.json
    commandsDb,  \* CMD_FILE, commands_db.json
    now,         \* the relay host's clock: the last value time.time() returned
    resp,        \* the relay's latest response
    thread,      \* SpecConc: the request each relay worker thread is serving
    issued,      \* history: per agent, the commands send_command was called with
    accepted,    \* history: per agent, the commands answered "queued", in order
    delivered,   \* history: per agent, the commands fetch_commands returned, in order
    pushed,      \* history: per agent, the last update answered "ok"
    raced,       \* history: the commands whose send_command began during a drain
                 \*   for the same agent
    overlap,     \* history: the agents two of whose requests were served at once
    codrained,   \* history: the agents two of whose drains were served at once
    agent,       \* SpecAgent: per agent process, where its loop is, the commands of
                 \*   the poll response still to run, the result to post
    received,    \* history: per agent, the commands its polls received, in order
    executed,    \* history: per agent, the commands it executed, in order
    posted,      \* history: per agent, the commands it posted a result for, with
                 \*   the relay's answer (0 when none came)
    identity,    \* SpecIdentity: per agent machine, its identity file, the agent
                 \*   process and the id it runs under
    worker,      \* SpecWorker: agent_worker's AgentWorker object and the threads
                 \*   in run(), run_loop() and stop()
    job          \* SpecExec: one command an agent received, or one telemetry
                 \*   collection, with what the machine does and what came of it

storeVars == <<agentsDb, commandsDb, now>>
histVars == <<issued, accepted, delivered, pushed, raced, overlap, codrained>>
hostVars == <<identity, worker, job>>
loopVars == <<thread, agent, received, executed, posted, identity, worker>>
agentVars == <<agent, received, executed, posted, identity, worker, job>>
callerVars == <<thread, agent, received, executed, posted, identity, worker, job>>
vars == <<agentsDb, commandsDb, now, resp, thread,
          issued, accepted, delivered, pushed, raced, overlap, codrained,
          agent, received, executed, posted, identity, worker, job>>

\* time.time(): the clock has moved on since the previous request read it.
time_time == IF now < MaxTime THEN {now + 1} ELSE {}

\* The bodies callers send.
Telemetry(a, ip) ==
    [agent_id |-> a, hostname |-> "host", username |-> "user", os |-> "Windows",
     ip_address |-> ip, metrics |-> "metrics", device_info |-> "device"]

AgentUpdates == {Telemetry(a, ip) : a \in Agents, ip \in IPs}

\* The command dicts operators send: app.py sends {id: qa-<seconds>, type:
\* quick_assist}, so two clicks within a second carry the same id.
\* agent.py knows the type quick_assist, agent_worker.py open_quick_assist.
Commands == {[id |-> "qa-1", type |-> "quick_assist"],
             [id |-> "qa-2", type |-> "open_quick_assist"]}

CommandIds == {c.id : c \in Commands}

\* The results callers post: for an id operators use or for another one.
CommandResults ==
    {[agent_id |-> a, command_id |-> id, output |-> "output", success |-> ok] :
        a \in Agents, id \in CommandIds \cup {"qa-0"}, ok \in BOOLEAN}

AllIssued == UNION {issued[a] : a \in Agents}

\* The next command dict a caller sends: `n` tells one send_command call from
\* another (two dicts with the same id and type are still two entries); no
\* handler reads it.
NewCommands == IF Cardinality(AllIssued) < MaxCmds
               THEN {[id |-> c.id, type |-> c.type, n |-> Cardinality(AllIssued) + 1] :
                        c \in Commands}
               ELSE {}

Queue(a) == LET cmds == load_json(commandsDb)
            IN IF a \in DOMAIN cmds THEN cmds[a] ELSE <<>>

Record(a) == load_json(agentsDb)[a]

HasRecord(a) == a \in DOMAIN load_json(agentsDb)

\* What has completed when a request starts: the commands answered "queued"
\* and not yet handed out (requests on the queues), the agents whose update
\* was answered "ok" (requests on the registry).
Owed(a) == Range(accepted[a]) \ Range(delivered[a])

Registered == DOMAIN pushed

Response(op, agent_id, status, body, pre) ==
    [op |-> op, agent_id |-> agent_id, status |-> status, body |-> body, pre |-> pre]

\* Every body is a record, as every JSON body of the relay is an object.
NoBody == [detail |-> "none"]

NoResp == Response("none", "none", 0, NoBody, {})

Idle == [pc |-> "idle", op |-> "none", agent_id |-> "none", body |-> NoBody,
         db |-> EmptyDict, cmds |-> EmptyDict, pre |-> {}]

\* An agent process as its loop begins: about to push telemetry.  `net` is
\* how the iteration's push ended, from the push to the poll.
Started == [pc |-> "update", batch |-> <<>>, result |-> NoBody, net |-> "none"]

\* The identity file: absent, or holding an id, with or without the newline
\* an editor leaves behind.  Both agents write the bare id.
NoIdFile == [exists |-> FALSE, text |-> 0, newline |-> FALSE]

Written(id) == [exists |-> TRUE, text |-> id, newline |-> FALSE]

Provisioned(id) == [exists |-> TRUE, text |-> id, newline |-> TRUE]

\* str.strip() of the file's content.
strip(f) == f.text

\* A machine and its agent process: `minted` counts the ids uuid4 has made
\* there (the next one is minted + 1), `id` is AGENT_ID (0 before the module
\* is loaded), `returned` what the latest call of the identity function gave,
\* `calls` counts its calls, `fault` tells what failed in the latest call.
Host(file, minted, state, id) ==
    [file |-> file, minted |-> minted, state |-> state, id |-> id,
     returned |-> id, calls |-> 0, fault |-> "none"]

\* A machine whose agent runs under the id its file holds.
Enrolled == Host(Written(1), 1, "up", 1)

\* AgentWorker.__init__, and the object once run() and run_loop() are under way.
NotStarted == [running |-> FALSE, main |-> "idle", loop |-> "none",
               stop |-> "none", slept |-> 0]

Looping == [running |-> TRUE, main |-> "waiting", loop |-> "running",
            stop |-> "none", slept |-> 0]

\* The relay as installed and the agents' loops at their first statement.
Booted ==
    /\ agentsDb = AbsentFile
    /\ commandsDb = AbsentFile
    /\ now = 0
    /\ resp = NoResp
    /\ thread = [t \in Threads |-> Idle]
    /\ issued = [a \in Agents |-> {}]
    /\ accepted = [a \in Agents |-> <<>>]
    /\ delivered = [a \in Agents |-> <<>>]
    /\ pushed = EmptyDict
    /\ raced = {}
    /\ overlap = {}
    /\ codrained = {}
    /\ agent = [a \in Agents |-> Started]
    /\ received = [a \in Agents |-> <<>>]
    /\ executed = [a \in Agents |-> <<>>]
    /\ posted = [a \in Agents |-> <<>>]

\* No command in hand, no collection under way.
NoJob == [kind |-> "none", a |-> "none", cmd |-> [id |-> "none", type |-> "none"],
          env |-> [s1 |-> "zero", s2 |-> "zero", s3 |-> "zero", s4 |-> "zero"],
          faults |-> {}, stage |-> "idle", calls |-> <<>>, body |-> NoBody, answer |-> 0]

Init ==
    /\ Booted
    /\ identity = [a \in Agents |-> Enrolled]
    /\ worker = Looping
    /\ job = NoJob

\* ------------------------------------------------- what the handlers answer
UpdateOk(data, pre) == Response("update_agent_info", data.agent_id, 200, [status |-> "ok"], pre)

FetchOk(agent_id, pending, pre) ==
    Response("fetch_commands", agent_id, 200, [commands |-> pending], pre)

SendOk(agent_id, command, pre) ==
    Response("send_command", agent_id, 200, [status |-> "queued", command |-> command], pre)

ListOk(db, t, pre) ==
    Response("list_agents", "none", 200, [devices |-> Devices(db, t)], pre)

InfoAnswer(db, agent_id, pre) ==
    IF agent_id \notin DOMAIN db
    THEN Response("full_agent_info", agent_id, 404, [detail |-> "Agent not found"], pre)
    ELSE Response("full_agent_info", agent_id, 200, db[agent_id], pre)

\* The history entry of an update answered "ok": its body and the time it
\* read, and the time and ip_address of the update answered "ok" before it.
Pushed(data, t) ==
    LET a == data.agent_id IN
    [data |-> data, seen |-> t,
     prev |-> IF a \in DOMAIN pushed THEN pushed[a].seen ELSE 0,
     prev_ip |-> IF a \in DOMAIN pushed THEN pushed[a].data.ip_address ELSE "none"]

\* ------------------------------------------- the handlers, one step each
\* POST /api/agent/update
\* with time.time() returning t
update_agent_info_at(data, t) ==
    /\ LET db == load_json(agentsDb) IN
          /\ now' = t
          /\ agentsDb' = save_json(UpdatedDb(db, data, t), RegistryLen(UpdatedDb(db, data, t)))
          /\ pushed' = Put(pushed, data.agent_id, Pushed(data, t))
    /\ resp' = UpdateOk(data, Registered)
    /\ UNCHANGED <<commandsDb, issued, accepted, delivered, raced, overlap, codrained>>

update_agent_info(data) == \E t \in time_time : update_agent_info_at(data, t)

\* GET /api/agent/commands/{agent_id}
fetch_commands(agent_id) ==
    LET cmds == load_json(commandsDb) IN
    /\ IF agent_id \notin DOMAIN cmds
       THEN /\ resp' = FetchOk(agent_id, <<>>, Owed(agent_id))
            /\ UNCHANGED <<commandsDb, delivered>>
       ELSE /\ commandsDb' = save_json(Cleared(cmds, agent_id), CommandsLen(Cleared(cmds, agent_id)))
            /\ resp' = FetchOk(agent_id, Pending(cmds, agent_id), Owed(agent_id))
            /\ delivered' = [delivered EXCEPT
                                ![agent_id] = @ \o Pending(cmds, agent_id)]
    /\ UNCHANGED <<agentsDb, now, issued, accepted, pushed, raced, overlap, codrained>>

\* POST /api/agent/command_response
ReceivedOk(body) ==
    Response("receive_command_response", body.agent_id, 200, [status |-> "received"],
             {c \in issued[body.agent_id] : c.id = body.command_id})

\* A relay that took a result as the acknowledgement of the agent's queue.
receive_command_response_acking(body) ==
    LET cmds == load_json(commandsDb)
        acked == IF body.agent_id \in DOMAIN cmds THEN Cleared(cmds, body.agent_id)
                 ELSE cmds IN
    /\ resp' = ReceivedOk(body)
    /\ commandsDb' = save_json(acked, CommandsLen(acked))
    /\ UNCHANGED <<agentsDb, now, histVars>>

receive_command_response(body) ==
    /\ resp' = ReceivedOk(body)
    /\ UNCHANGED <<storeVars, histVars>>

\* A relay that queued commands only for agents it has a record of.
send_command_registered_only(agent_id, command) ==
    IF agent_id \in DOMAIN load_json(agentsDb)
    THEN /\ LET cmds == Enqueued(load_json(commandsDb), agent_id, command)
            IN commandsDb' = save_json(cmds, CommandsLen(cmds))
         /\ resp' = SendOk(agent_id, command, Owed(agent_id))
         /\ issued' = [issued EXCEPT ![agent_id] = @ \cup {command}]
         /\ accepted' = [accepted EXCEPT ![agent_id] = Append(@, command)]
         /\ UNCHANGED <<agentsDb, now, delivered, pushed, raced, overlap, codrained>>
    ELSE /\ resp' = Response("send_command", agent_id, 404,
                             [detail |-> "Agent not found"], Owed(agent_id))
         /\ issued' = [issued EXCEPT ![agent_id] = @ \cup {command}]
         /\ UNCHANGED <<storeVars, accepted, delivered, pushed, raced, overlap, codrained>>

\* POST /api/agent/send/{agent_id}
send_command(agent_id, command) ==
    /\ LET cmds == Enqueued(load_json(commandsDb), agent_id, command)
       IN commandsDb' = save_json(cmds, CommandsLen(cmds))
    /\ resp' = SendOk(agent_id, command, Owed(agent_id))
    /\ issued' = [issued EXCEPT ![agent_id] = @ \cup {command}]
    /\ accepted' = [accepted EXCEPT ![agent_id] = Append(@, command)]
    /\ UNCHANGED <<agentsDb, now, delivered, pushed, raced, overlap, codrained>>

\* GET /api/agent/list
\* A relay whose list wrote the online flag it computed into the records.
list_agents_persisting(t) ==
    LET db == load_json(agentsDb)
        flagged == [a \in DOMAIN db |->
                       [agent_id |-> a, hostname |-> db[a].hostname,
                        username |-> db[a].username, os |-> db[a].os,
                        ip_address |-> db[a].ip_address, metrics |-> db[a].metrics,
                        device_info |-> db[a].device_info, last_seen |-> db[a].last_seen,
                        online |-> (t - db[a].last_seen) < PRESENCE_WINDOW]] IN
    /\ now' = t
    /\ resp' = ListOk(db, t, Registered)
    /\ agentsDb' = save_json(flagged, RegistryLen(flagged))
    /\ UNCHANGED <<commandsDb, histVars>>

\* with time.time() returning t
list_agents_at(t) ==
    /\ now' = t
    /\ resp' = ListOk(load_json(agentsDb), t, Registered)
    /\ UNCHANGED <<agentsDb, commandsDb, histVars>>

list_agents == \E t \in time_time : list_agents_at(t)

\* GET /api/agent/info/{agent_id}
full_agent_info(agent_id) ==
    /\ resp' = InfoAnswer(load_json(agentsDb), agent_id, Registered)
    /\ UNCHANGED <<storeVars, histVars>>

\* A request body pydantic rejects never reaches the handler.
Rejected(op, agent_id) ==
    /\ resp' = Response(op, agent_id, 422, [detail |-> "Unprocessable Entity"], {})
    /\ UNCHANGED <<storeVars, histVars>>

post_update(body) ==
    IF ValidBody(body, AgentUpdateFields) THEN update_agent_info(body)
    ELSE Rejected("update_agent_info", body.agent_id)

post_command_response(body) ==
    IF ValidBody(body, CommandResponseFields) THEN receive_command_response(body)
    ELSE Rejected("receive_command_response", body.agent_id)

\* ------------------------------------- Spec: callers, one request at a time
CallUpdate == \E data \in AgentUpdates : post_update(data) /\ UNCHANGED callerVars
CallFetch == \E a \in Agents : fetch_commands(a) /\ UNCHANGED callerVars
CallSend == \E a \in Agents, c \in NewCommands : send_command(a, c) /\ UNCHANGED callerVars
CallList == list_agents /\ UNCHANGED callerVars
CallInfo == \E a \in Agents : full_agent_info(a) /\ UNCHANGED callerVars
CallResponse == \E body \in CommandResults : post_command_response(body) /\ UNCHANGED callerVars

Next == CallUpdate \/ CallFetch \/ CallSend \/ CallList \/ CallInfo \/ CallResponse

Spec == Init /\ [][Next]_vars

\* ------------------------------- SpecPresence: requests seconds or a window apart
\* The instants at which the relay reads its clock: the first seconds, and
\* the seconds one PRESENCE_WINDOW later.
Instants == (1 .. MaxTime) \cup (PRESENCE_WINDOW .. PRESENCE_WINDOW + MaxTime)

\* Each agent pushes from one address here: presence reads last_seen only.
PresencePush ==
    /\ \E a \in Agents, t \in Instants :
          t > now /\ update_agent_info_at(Telemetry(a, "172.16.1.41"), t)
    /\ UNCHANGED callerVars

PresenceList ==
    /\ \E t \in Instants : t > now /\ list_agents_at(t)
    /\ UNCHANGED callerVars

NextPresence == PresencePush \/ PresenceList \/ CallSend

SpecPresence == Init /\ [][NextPresence]_vars

\* ------------------- SpecConc: the handlers on the relay's worker threads
\* A handler that writes takes its steps one at a time: load_json (with the
\* changes it makes to its own copy), for update_agent_info the read of the
\* clock, then the two halves of save_json; the response leaves with the
\* second half.  A handler that only reads is one step.
InFlight(t) == thread[t].pc # "idle"

AllIdle == \A t \in Threads : ~InFlight(t)

Busy(a) == \E u \in Threads : InFlight(u) /\ thread[u].agent_id = a

Draining(a) ==
    \E u \in Threads : InFlight(u) /\ thread[u].op = "fetch_commands" /\ thread[u].agent_id = a

Overlapped(a) == IF Busy(a) THEN overlap \cup {a} ELSE overlap

BeginUpdate(t, data) ==
    /\ ~InFlight(t)
    /\ thread' = [thread EXCEPT ![t] =
           [pc |-> "stamp", op |-> "update_agent_info", agent_id |-> data.agent_id,
            body |-> data, db |-> load_json(agentsDb), cmds |-> EmptyDict,
            pre |-> Registered]]
    /\ overlap' = Overlapped(data.agent_id)
    /\ UNCHANGED <<agentVars, storeVars, resp, issued, accepted, delivered, pushed, raced,
                   codrained>>

StampUpdate(t) ==
    /\ thread[t].pc = "stamp"
    /\ \E tm \in time_time :
          /\ now' = tm
          /\ thread' = [thread EXCEPT
                 ![t].pc = "open",
                 ![t].db = UpdatedDb(thread[t].db, thread[t].body, tm)]
    /\ UNCHANGED <<agentVars, agentsDb, commandsDb, resp, histVars>>

OpenUpdate(t) ==
    /\ thread[t].pc = "open"
    /\ thread[t].op = "update_agent_info"
    /\ agentsDb' = save_open(agentsDb)
    /\ thread' = [thread EXCEPT ![t].pc = "close"]
    /\ UNCHANGED <<agentVars, commandsDb, now, resp, histVars>>

CloseUpdate(t) ==
    /\ thread[t].pc = "close"
    /\ thread[t].op = "update_agent_info"
    /\ agentsDb' \in save_close(agentsDb, thread[t].db, RegistryLen(thread[t].db), FALSE)
    /\ resp' = UpdateOk(thread[t].body, thread[t].pre)
    /\ pushed' = Put(pushed, thread[t].agent_id,
                     Pushed(thread[t].body, thread[t].db[thread[t].agent_id].last_seen))
    /\ thread' = [thread EXCEPT ![t] = Idle]
    /\ UNCHANGED <<agentVars, commandsDb, now, issued, accepted, delivered, raced, overlap, codrained>>

BeginFetch(t, agent_id) ==
    LET cmds == load_json(commandsDb) IN
    /\ ~InFlight(t)
    /\ IF agent_id \notin DOMAIN cmds
       THEN /\ resp' = FetchOk(agent_id, <<>>, Owed(agent_id))
            /\ UNCHANGED <<thread, overlap, codrained>>
       ELSE /\ Len(delivered[agent_id]) < MaxDelivered
            /\ thread' = [thread EXCEPT ![t] =
                   [pc |-> "open", op |-> "fetch_commands", agent_id |-> agent_id,
                    body |-> [commands |-> Pending(cmds, agent_id)], db |-> EmptyDict,
                    cmds |-> Cleared(cmds, agent_id), pre |-> Owed(agent_id)]]
            /\ overlap' = Overlapped(agent_id)
            /\ codrained' = IF Draining(agent_id) THEN codrained \cup {agent_id}
                             ELSE codrained
            /\ UNCHANGED resp
    /\ UNCHANGED <<agentVars, storeVars, issued, accepted, delivered, pushed, raced>>

BeginSend(t, agent_id, command) ==
    /\ ~InFlight(t)
    /\ thread' = [thread EXCEPT ![t] =
           [pc |-> "open", op |-> "send_command", agent_id |-> agent_id,
            body |-> command, db |-> EmptyDict,
            cmds |-> Enqueued(load_json(commandsDb), agent_id, command),
            pre |-> Owed(agent_id)]]
    /\ issued' = [issued EXCEPT ![agent_id] = @ \cup {command}]
    /\ raced' = IF Draining(agent_id) THEN raced \cup {command} ELSE raced
    /\ overlap' = Overlapped(agent_id)
    /\ UNCHANGED <<agentVars, storeVars, resp, accepted, delivered, pushed, codrained>>

OpenCommands(t) ==
    /\ thread[t].pc = "open"
    /\ thread[t].op \in {"fetch_commands", "send_command"}
    /\ commandsDb' = save_open(commandsDb)
    /\ thread' = [thread EXCEPT ![t].pc = "close"]
    /\ UNCHANGED <<agentVars, agentsDb, now, resp, histVars>>

CloseFetch(t) ==
    /\ thread[t].pc = "close"
    /\ thread[t].op = "fetch_commands"
    /\ commandsDb' \in save_close(commandsDb, thread[t].cmds, CommandsLen(thread[t].cmds), TRUE)
    /\ resp' = FetchOk(thread[t].agent_id, thread[t].body.commands, thread[t].pre)
    /\ delivered' = [delivered EXCEPT ![thread[t].agent_id] = @ \o thread[t].body.commands]
    /\ thread' = [thread EXCEPT ![t] = Idle]
    /\ UNCHANGED <<agentVars, agentsDb, now, issued, accepted, pushed, raced, overlap, codrained>>

CloseSend(t) ==
    /\ thread[t].pc = "close"
    /\ thread[t].op = "send_command"
    /\ commandsDb' \in save_close(commandsDb, thread[t].cmds, CommandsLen(thread[t].cmds), TRUE)
    /\ resp' = SendOk(thread[t].agent_id, thread[t].body, thread[t].pre)
    /\ accepted' = [accepted EXCEPT ![thread[t].agent_id] = Append(@, thread[t].body)]
    /\ thread' = [thread EXCEPT ![t] = Idle]
    /\ UNCHANGED <<agentVars, agentsDb, now, issued, delivered, pushed, raced, overlap, codrained>>

ThreadUpdate == \E t \in Threads, data \in AgentUpdates : BeginUpdate(t, data)
ThreadStamp == \E t \in Threads : StampUpdate(t)
ThreadOpenUpdate == \E t \in Threads : OpenUpdate(t)
ThreadCloseUpdate == \E t \in Threads : CloseUpdate(t)
ThreadFetch == \E t \in Threads, a \in Agents : BeginFetch(t, a)
ThreadSend == \E t \in Threads, a \in Agents, c \in NewCommands : BeginSend(t, a, c)
ThreadOpenCommands == \E t \in Threads : OpenCommands(t)
ThreadCloseFetch == \E t \in Threads : CloseFetch(t)
ThreadCloseSend == \E t \in Threads : CloseSend(t)

\* The two stores are separate files and no handler touches both, so the
\* requests on the queues and the requests on the registry are explored apart.
NextQueues ==
    \/ ThreadFetch \/ ThreadSend \/ ThreadOpenCommands
    \/ ThreadCloseFetch \/ ThreadCloseSend

SpecConcQueues == Init /\ [][NextQueues]_vars

NextRegistry ==
    \/ ThreadUpdate \/ ThreadStamp \/ ThreadOpenUpdate \/ ThreadCloseUpdate
    \/ CallList \/ CallInfo

SpecConcRegistry == Init /\ [][NextRegistry]_vars

\* ------------------------------------ SpecRestart: the relay process restarts
\* One worker serves one request at a time, step by step, and the process may
\* be stopped and started again at any moment.  The relay keeps nothing in
\* memory between requests: a restart only abandons the request being served
\* and leaves the files as they are on disk (a file opened for writing and
\* not yet written stays empty; one written in part is as unreadable).
Worker == "t1"

Restart ==
    /\ thread' = [t \in Threads |-> Idle]
    /\ UNCHANGED <<storeVars, resp, histVars, agentVars>>

WorkerUpdate == \E data \in AgentUpdates : BeginUpdate(Worker, data)
WorkerStamp == StampUpdate(Worker)
WorkerOpenUpdate == OpenUpdate(Worker)
WorkerCloseUpdate == CloseUpdate(Worker)
WorkerFetch == \E a \in Agents : BeginFetch(Worker, a)
WorkerSend == \E a \in Agents, c \in NewCommands : BeginSend(Worker, a, c)
WorkerOpenCommands == OpenCommands(Worker)
WorkerCloseFetch == CloseFetch(Worker)
WorkerCloseSend == CloseSend(Worker)
WorkerInfoRequest == AllIdle /\ CallInfo

NextRestart ==
    \/ WorkerUpdate \/ WorkerStamp \/ WorkerOpenUpdate \/ WorkerCloseUpdate
    \/ WorkerFetch \/ WorkerSend \/ WorkerOpenCommands
    \/ WorkerCloseFetch \/ WorkerCloseSend
    \/ WorkerInfoRequest \/ Restart

SpecRestart == Init /\ [][NextRestart]_vars

\* ------------------------------------------------ SpecAgent: the agents
\* Agent A runs sys_agent/agent.py, agent B modules/agent_worker.py.  Every
\* exchange with the relay either succeeds, is refused (the request never
\* reaches the relay) or times out (the relay serves it, the answer is lost).
Impl(a) == IF a = "A" THEN "agent_py" ELSE "agent_worker"

NetOutcomes == {"ok", "refused", "timeout"}

\* What the agent sees of an exchange: a response, or an exception.
Ended(net) == IF net = "ok" THEN "ok" ELSE "failed"

\* agent_worker.get_system_info
WorkerInfo(a) ==
    [agent_id |-> a, hostname |-> "host", username |-> "user",
     platform |-> "Windows", cpu_percent |-> "cpu", ram_total_gb |-> "ram",
     ram_used_gb |-> "ram", disk |-> "disk", timestamp |-> "utc"]

\* agent.py get_real_ip: the address of the interface that routes outwards
\* ("0.0.0.0" only when the machine has no route, which ends every exchange).
\* The agent's machine keeps one address for the run.
get_real_ip(a) == "172.16.1.41"

\* The bodies an agent may push: send_update's payload with the ip that
\* get_real_ip found, or get_system_info().
UpdatePayloads(a) ==
    IF Impl(a) = "agent_py" THEN {Telemetry(a, get_real_ip(a))}
    ELSE {WorkerInfo(a)}

\* What the executors meet on the machine.  A child process ends with exit
\* code zero or another one, or the call raises (the program is missing, the
\* time limit passes, an argument is None); a file looked for may be absent.
Outcomes == {"zero", "nonzero", "raises"}

\* The outcome of the first to the fourth external step of an execution.
Envs == [s1 : Outcomes, s2 : Outcomes,
         s3 : Outcomes \cup {"absent"}, s4 : Outcomes \cup {"absent"}]

\* The two machines the agents' loops run on: everything works, nothing does.
LoopEnvs == {[s1 |-> "zero", s2 |-> "zero", s3 |-> "zero", s4 |-> "zero"],
             [s1 |-> "raises", s2 |-> "raises", s3 |-> "absent", s4 |-> "absent"]}

Launch(success, output, tried, raised) ==
    [success |-> success, output |-> output, tried |-> tried, raised |-> raised]

\* A launcher that opens the URI before the app id and knows no executable.
launch_quick_assist_uri_first(env) ==
    IF env.s2 # "raises"
    THEN Launch(TRUE, "Launched Quick Assist via URI", <<"uri">>, {})
    ELSE IF env.s1 # "raises"
    THEN Launch(TRUE, "Launched Quick Assist (Store App via AppID)", <<"uri", "app_id">>, {"uri"})
    ELSE Launch(FALSE, "Failed to launch Quick Assist", <<"uri", "app_id">>, {"uri", "app_id"})

\* agent.py launch_quick_assist: Popen by app id, Popen by URI, the System32
\* executable when it exists, the first executable the glob finds.  `tried`
\* are the strategies that started a process or raised, `raised` the ones
\* that raised.
launch_quick_assist(env) ==
    IF env.s1 # "raises"
    THEN Launch(TRUE, "Launched Quick Assist (Store App via AppID)", <<"app_id">>, {})
    ELSE IF env.s2 # "raises"
    THEN Launch(TRUE, "Launched Quick Assist via URI", <<"app_id", "uri">>, {"app_id"})
    ELSE LET path == IF env.s3 = "absent" THEN <<>> ELSE <<"path">>
             glob == IF env.s4 = "absent" THEN <<>> ELSE <<"glob">>
             pathRaised == IF env.s3 = "raises" THEN {"path"} ELSE {}
             globRaised == IF env.s4 = "raises" THEN {"glob"} ELSE {}
         IN IF env.s3 \notin {"absent", "raises"}
            THEN Launch(TRUE, "Launched Quick Assist (System32)",
                        <<"app_id", "uri">> \o path, {"app_id", "uri"})
            ELSE IF env.s4 \notin {"absent", "raises"}
            THEN Launch(TRUE, "Launched Quick Assist (Store EXE via explorer)",
                        <<"app_id", "uri">> \o path \o glob,
                        {"app_id", "uri"} \cup pathRaised)
            ELSE Launch(FALSE, "Failed to launch Quick Assist",
                        <<"app_id", "uri">> \o path \o glob,
                        {"app_id", "uri"} \cup pathRaised \cup globRaised)

\* stdout and stderr of a child process, together.
Combined == "stdout stderr"

\* agent.py run_command: (success, output).  subprocess.run and getoutput
\* return whatever the exit code is; an exception becomes (False, str(e)).
run_command_on(cmd, env) ==
    IF cmd.type = "shutdown"
    THEN IF env.s1 = "raises" THEN [success |-> FALSE, output |-> "exception"]
         ELSE [success |-> TRUE, output |-> "Shutdown triggered"]
    ELSE IF cmd.type = "restart"
    THEN IF env.s1 = "raises" THEN [success |-> FALSE, output |-> "exception"]
         ELSE [success |-> TRUE, output |-> "Restart triggered"]
    ELSE IF cmd.type = "quick_assist"
    THEN [success |-> launch_quick_assist(env).success,
          output |-> launch_quick_assist(env).output]
    ELSE IF cmd.type = "cmd"
    THEN IF env.s1 = "raises" THEN [success |-> FALSE, output |-> "exception"]
         ELSE [success |-> TRUE, output |-> Combined]
    ELSE [success |-> FALSE, output |-> "Unknown command type"]

\* agent.py send_command_response's payload for what run_command returned.
send_command_response(a, cmd, ran) ==
    [agent_id |-> a, command_id |-> cmd.id, output |-> ran.output, success |-> ran.success]

\* agent.py poll_commands, the body of its loop: the result posted for cmd.
run_command(a, cmd) ==
    {send_command_response(a, cmd, run_command_on(cmd, env)) : env \in LoopEnvs}

\* f"Unknown command type: {ctype}"
UnknownType(type) ==
    CASE type = "quick_assist" -> "Unknown command type: quick_assist"
      [] type = "shutdown" -> "Unknown command type: shutdown"
      [] type = "restart" -> "Unknown command type: restart"
      [] type = "cmd" -> "Unknown command type: cmd"
      [] OTHER -> "Unknown command type: bogus"

WorkerResult(a, cmd, status, output) ==
    [cmd_id |-> cmd.id, agent_id |-> a, status |-> status, output |-> output,
     timestamp |-> "utc"]

\* agent_worker execute_command's outer except: the body it posts.
WorkerFailure(a) == [agent_id |-> a, status |-> "error", output |-> "exception"]

\* agent_worker.AgentWorker.execute_command: the body it posts.  sc stop and
\* sc start are run whatever they return; run_shell looks at the exit code;
\* os.system returns whatever the start did.  The payload is read by
\* restart_service and run_shell only: .get on a payload that is no dict
\* raises, a missing key gives None and subprocess.run raises on it.
execute_command_on(a, cmd, env) ==
    IF cmd.type = "restart_service"
    THEN IF cmd.payload # "valid" \/ env.s1 = "raises" \/ env.s2 = "raises"
         THEN WorkerFailure(a)
         ELSE WorkerResult(a, cmd, "ok", "stop: stdout start: stdout")
    ELSE IF cmd.type = "run_shell"
    THEN IF cmd.payload # "valid" \/ env.s1 = "raises"
         THEN WorkerFailure(a)
         ELSE WorkerResult(a, cmd, IF env.s1 = "zero" THEN "ok" ELSE "error", Combined)
    ELSE IF cmd.type = "open_quick_assist"
    THEN WorkerResult(a, cmd, "ok", "Quick Assist launched")
    ELSE WorkerResult(a, cmd, "error", UnknownType(cmd.type))

execute_command(a, cmd) == {execute_command_on(a, cmd, env) : env \in LoopEnvs}

Results(a, cmd) ==
    IF Impl(a) = "agent_py" THEN run_command(a, cmd) ELSE execute_command(a, cmd)

RelayUntouched == UNCHANGED <<storeVars, resp, histVars>>

\* agent_worker passes headers=HEADERS to every requests call; agent.py
\* passes none, so its requests carry what the requests library adds.
HEADERS == {"Authorization", "Content-Type"}

Headers(a) ==
    IF Impl(a) = "agent_py" THEN {"User-Agent", "Accept", "Content-Type"} ELSE HEADERS

\* The stages of the loop at which the agent sends a request.
Sending == {"update", "poll", "post"}

\* A loop whose iteration ends with a push that failed.
AgentUpdateOrSkip(a) ==
    /\ agent[a].pc = "update"
    /\ \E body \in UpdatePayloads(a), net \in NetOutcomes :
          /\ IF net = "refused" THEN RelayUntouched ELSE post_update(body)
          /\ agent' = [agent EXCEPT ![a].pc = IF net = "ok" THEN "poll" ELSE "sleep",
                                    ![a].net = Ended(net)]
    /\ UNCHANGED <<thread, received, executed, posted, hostVars>>

\* send_update / run_loop step 1: push telemetry, whatever the outcome go on.
AgentUpdate(a) ==
    /\ agent[a].pc = "update"
    /\ \E body \in UpdatePayloads(a), net \in NetOutcomes :
          /\ IF net = "refused" THEN RelayUntouched ELSE post_update(body)
          /\ agent' = [agent EXCEPT ![a].pc = "poll", ![a].net = Ended(net)]
    /\ UNCHANGED <<thread, received, executed, posted, hostVars>>

Reversed(q) == [i \in 1 .. Len(q) |-> q[Len(q) + 1 - i]]

\* A loop that runs the newest command of a poll response first.
AgentPollNewestFirst(a) ==
    /\ agent[a].pc = "poll"
    /\ \E net \in NetOutcomes :
          /\ IF net = "refused" THEN RelayUntouched ELSE fetch_commands(a)
          /\ LET got == IF net = "ok" THEN resp'.body.commands ELSE <<>> IN
             /\ agent' = [agent EXCEPT
                    ![a].pc = IF got = <<>> THEN "sleep" ELSE "exec",
                    ![a].batch = Reversed(got),
                    ![a].net = "none"]
             /\ received' = [received EXCEPT ![a] = @ \o got]
    /\ UNCHANGED <<thread, executed, posted, hostVars>>

\* poll_commands / run_loop step 2: GET the commands; a failed exchange
\* leaves nothing to run.
AgentPoll(a) ==
    /\ agent[a].pc = "poll"
    /\ \E net \in NetOutcomes :
          /\ IF net = "refused" THEN RelayUntouched ELSE fetch_commands(a)
          /\ LET got == IF net = "ok" THEN resp'.body.commands ELSE <<>> IN
             /\ agent' = [agent EXCEPT
                    ![a].pc = IF got = <<>> THEN "sleep" ELSE "exec",
                    ![a].batch = got,
                    ![a].net = "none"]
             /\ received' = [received EXCEPT ![a] = @ \o got]
    /\ UNCHANGED <<thread, executed, posted, hostVars>>

\* The body of `for cmd in commands`, first half: run the command.
AgentExec(a) ==
    /\ agent[a].pc = "exec"
    /\ \E result \in Results(a, Head(agent[a].batch)) :
          agent' = [agent EXCEPT ![a].pc = "post", ![a].result = result]
    /\ executed' = [executed EXCEPT ![a] = Append(@, Head(agent[a].batch))]
    /\ RelayUntouched
    /\ UNCHANGED <<thread, received, posted, hostVars>>

\* The body of `for cmd in commands`, second half: post the result; then the
\* next command, or the sleep after the last one.
AgentPost(a) ==
    /\ agent[a].pc = "post"
    /\ \E net \in NetOutcomes :
          /\ IF net = "refused" THEN RelayUntouched
             ELSE post_command_response(agent[a].result)
          /\ posted' = [posted EXCEPT ![a] = Append(@,
                 [n |-> Head(agent[a].batch).n,
                  status |-> IF net = "ok" THEN resp'.status ELSE 0])]
          /\ agent' = [agent EXCEPT
                 ![a].pc = IF Tail(agent[a].batch) = <<>> THEN "sleep" ELSE "exec",
                 ![a].batch = Tail(agent[a].batch),
                 ![a].result = NoBody]
    /\ UNCHANGED <<thread, received, executed, hostVars>>

\* time.sleep: then the next iteration.
AgentSleep(a) ==
    /\ agent[a].pc = "sleep"
    /\ agent' = [agent EXCEPT ![a].pc = "update", ![a].net = "none"]
    /\ RelayUntouched
    /\ UNCHANGED <<thread, received, executed, posted, hostVars>>

LoopUpdate == \E a \in Agents : AgentUpdate(a)
LoopPoll == \E a \in Agents : AgentPoll(a)
LoopExec == \E a \in Agents : AgentExec(a)
LoopPost == \E a \in Agents : AgentPost(a)
LoopSleep == \E a \in Agents : AgentSleep(a)

\* app.py trigger_quick_assist and the like: an operator enqueues a command.
OperatorSend ==
    \E a \in Agents, c \in NewCommands : send_command(a, c) /\ UNCHANGED callerVars

NextAgent == LoopUpdate \/ LoopPoll \/ LoopExec \/ LoopPost \/ LoopSleep \/ OperatorSend

SpecAgent == Init /\ [][NextAgent]_vars

\* ------------------------------------------- SpecIdentity: the agent's id
\* Both agents compute AGENT_ID once, when the module is loaded, from a file
\* next to the agent.  A read or a write of that file may fail (permissions,
\* a share lock, a full disk, bytes that do not decode).
Outcome(raised, id, file, minted, faults) ==
    [raised |-> raised, id |-> id, file |-> file, minted |-> minted, faults |-> faults]

\* sys_agent/agent.py get_agent_id: nothing is caught.
get_agent_id(h, canRead, canWrite) ==
    IF ~h.file.exists
    THEN IF canWrite
         THEN Outcome(FALSE, h.minted + 1, Written(h.minted + 1), h.minted + 1, {})
         ELSE Outcome(TRUE, 0, h.file, h.minted + 1, {"write"})
    ELSE IF canRead
         THEN Outcome(FALSE, strip(h.file), h.file, h.minted, {})
         ELSE Outcome(TRUE, 0, h.file, h.minted, {"read"})

\* modules/agent_worker.py load_or_create_agent_id: a failed read falls
\* through to a new uuid and to the write, a failed write is passed over.
load_or_create_agent_id(h, canRead, canWrite) ==
    IF h.file.exists /\ canRead
    THEN Outcome(FALSE, strip(h.file), h.file, h.minted, {})
    ELSE Outcome(FALSE, h.minted + 1,
                 IF canWrite THEN Written(h.minted + 1) ELSE h.file,
                 h.minted + 1,
                 (IF h.file.exists THEN {"read"} ELSE {})
                     \cup (IF canWrite THEN {} ELSE {"write"}))

IdentityCall(a, canRead, canWrite) ==
    IF Impl(a) = "agent_py" THEN get_agent_id(identity[a], canRead, canWrite)
    ELSE load_or_create_agent_id(identity[a], canRead, canWrite)

IdentityOnly ==
    UNCHANGED <<storeVars, resp, thread, histVars, agent, received, executed, posted, worker, job>>

\* `AGENT_ID = ...` as the agent's module is loaded: an exception here ends
\* the process before its loop begins.
StartProcess(a) ==
    /\ identity[a].state \in {"down", "crashed"}
    /\ identity[a].calls < MaxCalls
    /\ \E canRead \in BOOLEAN, canWrite \in BOOLEAN :
          LET out == IdentityCall(a, canRead, canWrite) IN
          /\ out.minted <= MaxIds
          /\ identity' = [identity EXCEPT ![a] =
                 [file |-> out.file, minted |-> out.minted,
                  state |-> IF out.raised THEN "crashed" ELSE "up",
                  id |-> out.id, returned |-> out.id,
                  calls |-> @.calls + 1, fault |-> out.faults]]
    /\ IdentityOnly

\* The identity function called once more in the running process.
CallAgain(a) ==
    /\ identity[a].state = "up"
    /\ identity[a].calls < MaxCalls
    /\ \E canRead \in BOOLEAN, canWrite \in BOOLEAN :
          LET out == IdentityCall(a, canRead, canWrite) IN
          /\ out.minted <= MaxIds
          /\ identity' = [identity EXCEPT ![a] =
                 [file |-> out.file, minted |-> out.minted,
                  state |-> IF out.raised THEN "crashed" ELSE "up",
                  id |-> @.id, returned |-> out.id,
                  calls |-> @.calls + 1, fault |-> out.faults]]
    /\ IdentityOnly

\* The process ends; the file stays.
ExitProcess(a) ==
    /\ identity[a].state = "up"
    /\ identity' = [identity EXCEPT ![a].state = "down", ![a].id = 0]
    /\ IdentityOnly

\* Somebody removes the identity file.
DeleteIdFile(a) ==
    /\ identity[a].file.exists
    /\ identity' = [identity EXCEPT ![a].file = NoIdFile]
    /\ IdentityOnly

Start == \E a \in Agents : StartProcess(a)
Recall == \E a \in Agents : CallAgain(a)
Exit == \E a \in Agents : ExitProcess(a)
Delete == \E a \in Agents : DeleteIdFile(a)

InitIdentity ==
    /\ Booted
    /\ identity \in [Agents -> {Host(NoIdFile, 0, "down", 0),
                                Host(Provisioned(1), 1, "down", 0)}]
    /\ worker = NotStarted
    /\ job = NoJob

NextIdentity == Start \/ Recall \/ Exit \/ Delete

SpecIdentity == InitIdentity /\ [][NextIdentity]_vars

\* ------------------------------------ SpecWorker: starting and stopping
\* agent_worker.py's AgentWorker as agent_service.py drives it: SvcDoRun calls
\* run() on the service thread, run() starts the thread of run_loop(), SvcStop
\* calls stop() on the control thread.  The loop is agent B's.
Service == "B"

WorkerOnly ==
    UNCHANGED <<storeVars, resp, thread, histVars, agent, received, executed, posted, identity, job>>

\* run(): create and start the loop thread.
Run ==
    /\ worker.main = "idle"
    /\ worker' = [worker EXCEPT !.main = "waiting", !.loop = "spawned"]
    /\ WorkerOnly

\* run(): `while self._running or self.thread.is_alive()` is false.
RunReturn ==
    /\ worker.main = "waiting"
    /\ ~worker.running
    /\ worker.loop = "done"
    /\ worker' = [worker EXCEPT !.main = "done"]
    /\ WorkerOnly

\* run_loop(): its first statement, `self._running = True`.
RunLoopEnter ==
    /\ worker.loop = "spawned"
    /\ worker' = [worker EXCEPT !.running = TRUE, !.loop = "running"]
    /\ WorkerOnly

\* `while self._running` is true: the iteration begins with the push.
RunLoopPush == worker.loop = "running" /\ worker.running /\ AgentUpdate(Service)

\* `while self._running` is false: run_loop returns, the thread ends.
RunLoopLeave ==
    /\ worker.loop = "running"
    /\ agent[Service].pc = "update"
    /\ ~worker.running
    /\ worker' = [worker EXCEPT !.loop = "done"]
    /\ WorkerOnly

RunLoopPoll == worker.loop = "running" /\ AgentPoll(Service)
RunLoopExec == worker.loop = "running" /\ AgentExec(Service)
RunLoopPost == worker.loop = "running" /\ AgentPost(Service)

\* The wait: `if not self._running: break`, else time.sleep(1) once more.
RunLoopTick ==
    /\ worker.loop = "running"
    /\ agent[Service].pc = "sleep"
    /\ worker.running
    /\ worker.slept < SleepIncrements
    /\ worker' = [worker EXCEPT !.slept = @ + 1]
    /\ WorkerOnly

\* The wait ends, by the break or after the last increment: back to the
\* `while self._running` test.
RunLoopWake ==
    /\ worker.loop = "running"
    /\ agent[Service].pc = "sleep"
    /\ ~worker.running \/ worker.slept = SleepIncrements
    /\ worker' = [worker EXCEPT !.slept = 0]
    /\ agent' = [agent EXCEPT ![Service].pc = "update", ![Service].net = "none"]
    /\ UNCHANGED <<storeVars, resp, thread, histVars, received, executed, posted, identity, job>>

\* SvcStop -> stop(): `self._running = False`, at any moment once run() has
\* started the thread.
Stop ==
    /\ worker.main # "idle"
    /\ worker.stop = "none"
    /\ worker' = [worker EXCEPT !.running = FALSE, !.stop = "joining"]
    /\ WorkerOnly

\* stop(): `self.thread.join(timeout=5)` returns, the thread ended or not.
StopReturn ==
    /\ worker.stop = "joining"
    /\ worker' = [worker EXCEPT !.stop = "returned"]
    /\ WorkerOnly

\* An operator enqueues a command for the service's agent.
ServiceSend ==
    \E c \in NewCommands : send_command(Service, c) /\ UNCHANGED callerVars

RunLoop ==
    \/ RunLoopEnter \/ RunLoopPush \/ RunLoopPoll \/ RunLoopExec \/ RunLoopPost
    \/ RunLoopTick \/ RunLoopWake \/ RunLoopLeave

InitWorker ==
    /\ Booted
    /\ identity = [a \in Agents |-> Enrolled]
    /\ worker = NotStarted
    /\ job = NoJob

NextWorker == Run \/ RunReturn \/ RunLoop \/ Stop \/ StopReturn \/ ServiceSend

\* Every thread that can take a step takes one in the end.
SpecWorker ==
    /\ InitWorker
    /\ [][NextWorker]_vars
    /\ WF_vars(Run) /\ WF_vars(RunReturn) /\ WF_vars(RunLoop) /\ WF_vars(StopReturn)

\* ------------------------------- SpecExec: one execution, one collection
\* What an agent does with one command of a poll response, for every type of
\* the vocabulary and one outside it, every payload and every machine; and
\* what it does when a telemetry push is due, for every set of readings that
\* fail.
CommandTypes == {"restart_service", "run_shell", "open_quick_assist", "quick_assist",
                 "shutdown", "restart", "cmd", "bogus"}

\* The payload is the dict its type expects, lacks the key, or is no dict.
Payloads == {"valid", "missing", "malformed"}

Readings == {"cpu", "ram", "disk"}

CommandJobs ==
    {[kind |-> "command", a |-> a,
      cmd |-> [id |-> "cmd-1", type |-> type, payload |-> payload, n |-> 1],
      env |-> env, faults |-> {}, stage |-> "received", calls |-> <<>>,
      body |-> NoBody, answer |-> 0] :
        a \in Agents, type \in CommandTypes, payload \in Payloads, env \in Envs}

TelemetryJobs ==
    {[kind |-> "telemetry", a |-> a, cmd |-> NoJob.cmd, env |-> NoJob.env,
      faults |-> faults, stage |-> "due", calls |-> <<>>, body |-> NoBody, answer |-> 0] :
        a \in Agents, faults \in SUBSET Readings}

\* The body the agent posts for the command: poll_commands' run_command and
\* send_command_response, or execute_command.
Executed(j) ==
    IF Impl(j.a) = "agent_py"
    THEN send_command_response(j.a, j.cmd, run_command_on(j.cmd, j.env))
    ELSE execute_command_on(j.a, j.cmd, j.env)

\* The programs the executor started or tried to start, in order: the launch
\* strategies, shutdown, the shell, sc.  A payload that cannot be used raises
\* before anything is started; sc start follows sc stop unless sc stop raised.
Calls(j) ==
    IF Impl(j.a) = "agent_py"
    THEN CASE j.cmd.type = "quick_assist" -> launch_quick_assist(j.env).tried
           [] j.cmd.type \in {"shutdown", "restart"} -> <<"shutdown">>
           [] j.cmd.type = "cmd" -> <<"shell">>
           [] OTHER -> <<>>
    ELSE CASE j.cmd.type = "open_quick_assist" -> <<"app_id">>
           [] j.cmd.type = "run_shell" /\ j.cmd.payload = "valid" -> <<"shell">>
           [] j.cmd.type = "restart_service" /\ j.cmd.payload = "valid" ->
                 IF j.env.s1 = "raises" THEN <<"sc stop">> ELSE <<"sc stop", "sc start">>
           [] OTHER -> <<>>

\* agent.py collect_metrics raises when a reading does, and nothing between
\* it and the top of the process catches; get_system_info catches and
\* returns the error instead of the snapshot.
Raises(j) == Impl(j.a) = "agent_py" /\ j.faults # {}

get_system_info(a, faults) ==
    IF faults = {} THEN WorkerInfo(a)
    ELSE [error |-> "exception", agent_id |-> a, timestamp |-> "utc"]

Collected(j) ==
    IF Impl(j.a) = "agent_py" THEN Telemetry(j.a, get_real_ip(j.a))
    ELSE get_system_info(j.a, j.faults)

\* The executor runs the command.
Execute ==
    /\ job.stage = "received"
    /\ job' = [job EXCEPT !.stage = "ran", !.calls = Calls(job), !.body = Executed(job)]
    /\ RelayUntouched
    /\ UNCHANGED loopVars

\* The agent posts the result.
PostResult ==
    /\ job.stage = "ran"
    /\ post_command_response(job.body)
    /\ job' = [job EXCEPT !.stage = "posted", !.answer = resp'.status]
    /\ UNCHANGED loopVars

\* The agent builds the body of the push, or the process ends.
Collect ==
    /\ job.stage = "due"
    /\ job' = IF Raises(job) THEN [job EXCEPT !.stage = "crashed"]
              ELSE [job EXCEPT !.stage = "collected", !.body = Collected(job)]
    /\ RelayUntouched
    /\ UNCHANGED loopVars

\* The agent pushes it.
Push ==
    /\ job.stage = "collected"
    /\ post_update(job.body)
    /\ job' = [job EXCEPT !.stage = "pushed", !.answer = resp'.status]
    /\ UNCHANGED loopVars

InitExec ==
    /\ Booted
    /\ identity = [a \in Agents |-> Enrolled]
    /\ worker = Looping
    /\ job \in CommandJobs \cup TelemetryJobs

NextExec == Execute \/ PostResult \/ Collect \/ Push

SpecExec == InitExec /\ [][NextExec]_vars

\* ================================================================== claims
MutableFields == {"hostname", "username", "os", "ip_address", "metrics", "device_info"}

\* C1  FIFO per agent: with the relay serving one request at a time, the
\* commands answered "queued" for an agent are, in enqueue order, the ones the
\* drains have returned so far followed by the stored queue, and a drain
\* leaves the stored queue empty.  So a drain returns exactly the commands
\* enqueued since the previous drain, in enqueue order, and a drain that
\* follows a drain with no enqueue in between returns [].
C1_FifoPerAgent ==
    /\ \A a \in Agents : accepted[a] = delivered[a] \o Queue(a)
    /\ resp.op = "fetch_commands" => Queue(resp.agent_id) = <<>>

\* A drain has returned two commands enqueued one after the other.
C1_Witness ==
    /\ resp.op = "fetch_commands"
    /\ Len(resp.body.commands) >= 2
    /\ resp.body.commands = accepted[resp.agent_id]

\* C4  Drain isolation: no command send_command was called with for agent a
\* is ever in what fetch_commands returned for another agent b.
C4_DrainIsolation ==
    \A a \in Agents, b \in Agents :
        a # b => issued[a] \cap Range(delivered[b]) = {}

\* A drain for B returned commands while commands for A were waiting.
C4_Witness ==
    /\ resp.op = "fetch_commands"
    /\ resp.agent_id = "B"
    /\ resp.body.commands # <<>>
    /\ Queue("A") # <<>>

C2_DrainAtomic ==
    AllIdle =>
        \A a \in Agents :
            \A c \in raced \cap Range(accepted[a]) :
                c \in Range(Queue(a)) \cup Range(delivered[a])

\* C3  (as claimed) drain-on-read delivers each queue entry at most once,
\* whatever send_command requests run at the same time: for an agent no two of
\* whose drains were served at once, a command a drain has returned is not in
\* the agent's stored queue, and no command was returned by drains twice.
NoDuplicates(q) == \A i \in DOMAIN q, j \in DOMAIN q : q[i] = q[j] => i = j

C3_AtMostOnce ==
    \A a \in Agents \ codrained :
        /\ Range(delivered[a]) \cap Range(Queue(a)) = {}
        /\ NoDuplicates(delivered[a])

\* C5  (as claimed) requests for different agents are independent: for an
\* agent none of whose own requests overlapped each other, once no request is
\* in progress the queue holds exactly the accepted commands not yet handed
\* out, none handed out twice, and the record is the one its last update
\* wrote.
C5_AgentsIndependent ==
    AllIdle =>
        \A a \in Agents \ overlap :
            /\ accepted[a] = delivered[a] \o Queue(a)
            /\ a \in Registered =>
                  /\ HasRecord(a)
                  /\ Record(a) = AgentRecord(pushed[a].data, pushed[a].seen)

\* C7  (as claimed) the stored last_seen of an agent never decreases from
\* one state to the next.
C7_LastSeenMonotonic ==
    [][\A a \in Agents :
          (HasRecord(a) /\ HasRecord(a)') => Record(a)'.last_seen >= Record(a).last_seen]_vars

\* C8  (as claimed) an Agent Record is never deleted: a get_agent that
\* starts after update_agent answered ok for its agent id answers 200, and a
\* list_agents lists every agent id whose update was answered ok before it
\* started.
C8_NeverDeleted ==
    /\ (resp.op = "full_agent_info" /\ resp.agent_id \in resp.pre) => resp.status = 200
    /\ resp.op = "list_agents" =>
          \A a \in resp.pre : \E d \in resp.body.devices : d.agent_id = a

\* C9  (as claimed) a poll that starts after enqueue_command answered
\* "queued" returns the command: when a drain answers, every command that was
\* accepted and not yet handed out when the drain started has been handed out.
C9_NextPollDelivers ==
    resp.op = "fetch_commands" => resp.pre \subseteq Range(delivered[resp.agent_id])

\* C10  No deduplication by command id: for every agent and command id, the
\* send_command calls made with that id are as many as the entries with that
\* id in the stored queue plus the entries with that id that drains have
\* returned; a drain leaves the stored queue empty, so it returns all of them.
\* The agent runs what it received entry by entry, in order, skipping none and
\* running none twice, and attempts one result post per entry it ran.
CountId(q, id) == Cardinality({j \in DOMAIN q : q[j].id = id})

C10_NoDedup ==
    /\ \A a \in Agents, id \in CommandIds :
          Cardinality({c \in issued[a] : c.id = id})
              = CountId(Queue(a), id) + CountId(delivered[a], id)
    /\ resp.op = "fetch_commands" => Queue(resp.agent_id) = <<>>
    /\ \A a \in Agents :
          LET batch == agent[a].batch
              pc == agent[a].pc IN
          /\ Range(received[a]) \subseteq Range(delivered[a])
          /\ pc = "exec" =>
                received[a] = executed[a] \o batch /\ Len(posted[a]) = Len(executed[a])
          /\ pc = "post" =>
                /\ received[a] = executed[a] \o Tail(batch)
                /\ Len(posted[a]) = Len(executed[a]) - 1
          /\ pc \notin {"exec", "post"} =>
                /\ batch = <<>>
                /\ received[a] = executed[a]
                /\ Len(posted[a]) = Len(executed[a])
          /\ \A j \in DOMAIN posted[a] : posted[a][j].n = executed[a][j].n

\* Agent A got two entries carrying the same id from one poll, has run the
\* first and had its result accepted, and is about to run the second.
C10_Witness ==
    /\ agent["A"].pc = "exec"
    /\ Len(agent["A"].batch) = 1
    /\ Len(executed["A"]) = 1
    /\ executed["A"][1].id = agent["A"].batch[1].id
    /\ executed["A"][1] # agent["A"].batch[1]
    /\ Len(posted["A"]) = 1
    /\ posted["A"][1].status = 200
    /\ resp.op = "receive_command_response"
    /\ resp.agent_id = "A"

\* C11  list_agents is a pure read: a list_agents step leaves the registry
\* file and the commands file as they were, answers one device per stored
\* record with online computed from the record's last_seen and the time of
\* the read, and no stored record carries an online field.
C11_ListPureRead ==
    [][resp'.op = "list_agents" =>
          LET db == load_json(agentsDb)
              devices == resp'.body.devices IN
          /\ agentsDb' = agentsDb
          /\ commandsDb' = commandsDb
          /\ {d.agent_id : d \in devices} = DOMAIN db
          /\ Cardinality(devices) = Cardinality(DOMAIN db)
          /\ \A d \in devices :
                d.online = ((now' - db[d.agent_id].last_seen) < PRESENCE_WINDOW)
          /\ \A a \in DOMAIN load_json(agentsDb') :
                "online" \notin DOMAIN load_json(agentsDb')[a]]_vars

\* list_agents answered one device online and one offline while a command
\* was queued.
C11_Witness ==
    /\ resp.op = "list_agents"
    /\ \E d \in resp.body.devices : d.online
    /\ \E d \in resp.body.devices : ~d.online
    /\ Queue("A") # <<>>
    /\ HasRecord("A") /\ HasRecord("B")

\* C12  Presence threshold: in the answer of list_agents a device is online
\* exactly when the read happened less than 30 seconds after the record's
\* last_seen: online at 29 seconds, offline at 31, and offline at exactly 30.
C12_PresenceThreshold ==
    resp.op = "list_agents" =>
        \A d \in resp.body.devices :
            LET age == now - Record(d.agent_id).last_seen IN
            /\ d.online <=> age < PRESENCE_WINDOW
            /\ age = 29 => d.online
            /\ age = 30 => ~d.online
            /\ age = 31 => ~d.online

\* One read found A 29 seconds and B exactly 30 seconds after their pushes.
C12_Witness ==
    /\ resp.op = "list_agents"
    /\ \E d \in resp.body.devices :
          d.agent_id = "A" /\ now - Record("A").last_seen = 29 /\ d.online
    /\ \E d \in resp.body.devices :
          d.agent_id = "B" /\ now - Record("B").last_seen = 30 /\ ~d.online

\* C13  record_command_result: a result with the fields agent_id, command_id,
\* output and success is answered 200 {status: received}, whether or not a
\* command with that id was ever sent for that agent, and the step leaves the
\* registry file and the commands file as they were.
C13_ResultNoSideEffect ==
    [][resp'.op = "receive_command_response" =>
          /\ resp'.status = 200
          /\ resp'.body = [status |-> "received"]
          /\ agentsDb' = agentsDb
          /\ commandsDb' = commandsDb]_vars

\* A result for an id never sent for the agent was answered received while
\* the agent had a record and a waiting command.
C13_Witness ==
    /\ resp.op = "receive_command_response"
    /\ resp.status = 200
    /\ resp.pre = {}
    /\ HasRecord(resp.agent_id)
    /\ Queue(resp.agent_id) # <<>>

\* C14  Enqueue before registration: for an agent id no update was ever
\* answered ok for, send_command answers 200 queued, the agent's queue exists
\* afterwards with the command as its last entry, and a drain for that id
\* returns every command accepted and not yet handed out when it started.
C14_EnqueueUnregistered ==
    /\ (resp.op = "send_command" /\ resp.agent_id \notin Registered) =>
          /\ resp.status = 200
          /\ resp.body.status = "queued"
          /\ resp.agent_id \in DOMAIN load_json(commandsDb)
          /\ Queue(resp.agent_id) # <<>>
          /\ Queue(resp.agent_id)[Len(Queue(resp.agent_id))] = resp.body.command
    /\ (resp.op = "fetch_commands" /\ resp.agent_id \notin Registered) =>
          /\ resp.status = 200
          /\ resp.pre = Range(resp.body.commands)

\* With no agent registered at all, a drain returned a queued command.
C14_Witness ==
    /\ resp.op = "fetch_commands"
    /\ Registered = {}
    /\ agentsDb = AbsentFile
    /\ resp.body.commands # <<>>
    /\ resp.body.commands = accepted[resp.agent_id]

\* C15  (as claimed) end-to-end scenario: when a registered agent has polled
\* and received a command of type open_quick_assist, it executes the command
\* (its executor knows the type) and the result it is about to post carries the
\* command's id; every such result that reached the relay was answered 200;
\* and after the poll the agent's stored queue is empty.
C15_EndToEnd ==
    \A a \in Registered :
        /\ (agent[a].pc = "post" /\ Head(agent[a].batch).type = "open_quick_assist") =>
              /\ agent[a].result.command_id = Head(agent[a].batch).id
              /\ agent[a].result.output # "Unknown command type"
        /\ \A j \in DOMAIN posted[a] :
              (executed[a][j].type = "open_quick_assist" /\ posted[a][j].status # 0) =>
                  posted[a][j].status = 200
        /\ (resp.op = "fetch_commands" /\ resp.agent_id = a) => Queue(a) = <<>>

\* C16  (as claimed) the registry and the queues survive a restart of the
\* relay process: with requests served one at a time and restarts at any
\* moment, get_agent answers 200 for every agent whose update was answered ok
\* before it started, a drain returns every command that was answered queued
\* and not yet handed out when it started, and no drain returns a command a
\* drain has returned before.
C16_SurvivesRestart ==
    /\ (resp.op = "full_agent_info" /\ resp.agent_id \in resp.pre) =>
          /\ resp.status = 200
          /\ resp.body = AgentRecord(pushed[resp.agent_id].data, pushed[resp.agent_id].seen)
    /\ resp.op = "fetch_commands" => resp.pre \subseteq Range(resp.body.commands)
    /\ \A a \in Agents :
          \A i \in DOMAIN delivered[a], j \in DOMAIN delivered[a] :
              delivered[a][i] = delivered[a][j] => i = j

\* C17  The agent's id is stable: a call of the identity function that finds
\* the identity file in place and returns gives the id the file holds (so the
\* id the call before it gave, when that one is the file's), makes no new id
\* and leaves the file as it is - in a new process run and in a second call
\* of one run alike.
C17_IdentityStable ==
    [][\A a \in Agents :
          (/\ identity'[a].calls # identity[a].calls
           /\ identity[a].file.exists
           /\ identity'[a].state = "up")
          => /\ identity'[a].returned = strip(identity[a].file)
             /\ identity[a].returned = strip(identity[a].file)
                   => identity'[a].returned = identity[a].returned
             /\ identity'[a].minted = identity[a].minted
             /\ identity'[a].file = identity[a].file]_vars

\* C18  A failed read or write of the identity file is never fatal: the agent
\* process is up after every start, under an id, whatever failed.
C18_IdentityFailureTolerated ==
    \A a \in Agents :
        /\ identity[a].state # "crashed"
        /\ identity[a].state = "up" => identity[a].id # 0 /\ identity[a].returned # 0

\* C19  No failed exchange ends the loop or cuts the iteration short: from
\* the push the loop goes to the poll whether the push got a response or not;
\* from the poll to the first command received, or to the sleep when the poll
\* failed or brought nothing; from a command's run to the post of its result;
\* from the post, answered or not, to the next command or to the sleep; from
\* the sleep to the next push.  The loop is never anywhere else.
C19_LoopSurvivesFailures ==
    [][\A a \in Agents :
          /\ agent'[a].pc \in {"update", "poll", "exec", "post", "sleep"}
          /\ agent'[a] # agent[a] =>
                /\ agent[a].pc = "update" =>
                      agent'[a].pc = "poll" /\ agent'[a].net \in {"ok", "failed"}
                /\ agent[a].pc = "poll" =>
                      /\ agent'[a].pc = IF agent'[a].batch = <<>> THEN "sleep" ELSE "exec"
                      /\ received'[a] = received[a] \o agent'[a].batch
                /\ agent[a].pc = "exec" => agent'[a].pc = "post"
                /\ agent[a].pc = "post" =>
                      /\ Len(posted'[a]) = Len(posted[a]) + 1
                      /\ agent'[a].batch = Tail(agent[a].batch)
                      /\ agent'[a].pc = IF agent'[a].batch = <<>> THEN "sleep" ELSE "exec"
                /\ agent[a].pc = "sleep" => agent'[a].pc = "update"]_vars

\* An agent lost a poll's response, later got no answer to a result it posted,
\* and in the iteration after that is about to poll after a push that failed.
C19_Witness ==
    \E a \in Agents :
        /\ Len(delivered[a]) > Len(received[a])
        /\ \E i \in DOMAIN posted[a] : posted[a][i].status = 0
        /\ agent[a].pc = "poll"
        /\ agent[a].net = "failed"

\* C20  Cooperative cancellation: once stop() has been called, at whatever
\* moment after run() started the loop thread, the loop thread ends and run()
\* returns; and the loop begins no iteration after a stop.
C20_StopHonoured ==
    /\ (worker.stop # "none") ~> (worker.loop = "done" /\ worker.main = "done")
    /\ [][(worker.stop # "none" /\ agent[Service].pc = "update")
             => agent'[Service].pc = "update"]_vars

\* C21  One well-formed result per command: whatever the type, the payload
\* and the machine, the body the agent posts for a command it received has
\* the fields the relay's CommandResponse requires - the command's id, the
\* agent's id, a boolean success, the output - and the relay accepts it.
C21_ResultWellFormed ==
    job.kind = "command" =>
        /\ job.stage \in {"ran", "posted"} =>
              /\ CommandResponseFields \subseteq DOMAIN job.body
              /\ job.body.command_id = job.cmd.id
              /\ job.body.agent_id = job.a
              /\ job.body.success \in BOOLEAN
        /\ job.stage = "posted" => job.answer = 200

\* C22  Every push is well formed and registers the agent: the body an
\* agent's loop pushes has the fields the relay's AgentUpdate requires, and
\* once a push of a running agent has been answered the agent has a record
\* young enough for list_agents to report it online.
C22_PushRegisters ==
    \A a \in Agents :
        (agent[a].pc = "poll" /\ agent[a].net = "ok") =>
            /\ \A body \in UpdatePayloads(a) : AgentUpdateFields \subseteq DOMAIN body
            /\ HasRecord(a)
            /\ Device(a, Record(a), now).online

\* C23  Unknown command type: a command whose type is outside the vocabulary
\* is executed into a result that the agent posts, with success false and an
\* output that says the type is unknown (with or without quoting it).
C23_UnknownTypeFails ==
    (job.kind = "command" /\ job.cmd.type = "bogus" /\ job.stage \in {"ran", "posted"}) =>
        /\ job.body # NoBody
        /\ "output" \in DOMAIN job.body
        /\ job.body.output \in {"Unknown command type", UnknownType(job.cmd.type)}
        /\ "success" \in DOMAIN job.body
        /\ job.body.success = FALSE

\* C24  Every request carries the credential: whenever an agent's loop sends
\* its push, its poll or a result, the request has an Authorization header.
C24_CredentialOnEveryRequest ==
    [][\A a \in Agents :
          (agent[a].pc \in Sending /\ agent'[a] # agent[a])
              => "Authorization" \in Headers(a)]_vars

\* p is the beginning of q.
IsPrefix(p, q) == Len(p) <= Len(q) /\ \A i \in DOMAIN p : p[i] = q[i]

\* C25  The order inside an iteration: push, poll, then the commands of the
\* poll response one after the other in the order received - each executed,
\* its result posted, and only then the next one started - then the sleep.
\* So what an agent has executed is always the beginning of what it has
\* received, what it has posted the beginning of what it has executed, at
\* most one executed command awaits its post, and the loop sleeps or pushes
\* only with every received command executed and posted.
C25_StepOrder ==
    /\ [](\A a \in Agents :
            /\ IsPrefix(executed[a], received[a])
            /\ IsPrefix([i \in DOMAIN posted[a] |-> posted[a][i].n],
                          [i \in DOMAIN executed[a] |-> executed[a][i].n])
            /\ Len(executed[a]) = Len(posted[a]) + (IF agent[a].pc = "post" THEN 1 ELSE 0)
            /\ agent[a].pc = "exec" => received[a] = executed[a] \o agent[a].batch
            /\ agent[a].pc = "post" =>
                  /\ agent[a].batch # <<>>
                  /\ Head(agent[a].batch) = executed[a][Len(executed[a])]
                  /\ received[a] = executed[a] \o Tail(agent[a].batch)
            /\ agent[a].pc \in {"update", "poll", "sleep"} =>
                  agent[a].batch = <<>> /\ Len(posted[a]) = Len(received[a]))
    /\ [][\A a \in Agents : agent'[a].pc # agent[a].pc =>
            <<agent[a].pc, agent'[a].pc>> \in
                {<<"update", "poll">>, <<"poll", "exec">>, <<"poll", "sleep">>,
                 <<"exec", "post">>, <<"post", "exec">>, <<"post", "sleep">>,
                 <<"sleep", "update">>}]_vars

\* An agent is posting the result of the first of two commands one poll
\* brought; the second has not been started.
C25_Witness ==
    \E a \in Agents :
        /\ agent[a].pc = "post"
        /\ Len(agent[a].batch) = 2
        /\ Len(executed[a]) = 1
        /\ posted[a] = <<>>

\* The command is of a type the agent's executor has a branch for.
Knows(a, type) ==
    IF Impl(a) = "agent_py" THEN type \in {"shutdown", "restart", "quick_assist", "cmd"}
    ELSE type \in {"restart_service", "run_shell", "open_quick_assist"}

\* The execution failed on the machine: a child process ended with a code
\* other than zero (access denied, no such service) or the call raised (time
\* limit, missing program), the payload could not be used, or no launch
\* strategy started Quick Assist.
Failed(j) ==
    CASE j.cmd.type \in {"shutdown", "restart", "cmd", "open_quick_assist"} -> j.env.s1 # "zero"
      [] j.cmd.type = "quick_assist" -> ~launch_quick_assist(j.env).success
      [] j.cmd.type = "run_shell" -> j.cmd.payload # "valid" \/ j.env.s1 # "zero"
      [] j.cmd.type = "restart_service" ->
            j.cmd.payload # "valid" \/ j.env.s1 # "zero" \/ j.env.s2 # "zero"
      [] OTHER -> TRUE

\* The body reports a failure, in agent.py's words or in agent_worker's.
ReportsFailure(body) ==
    IF "success" \in DOMAIN body THEN body.success = FALSE
    ELSE "status" \in DOMAIN body /\ body.status = "error"

\* C26  A failed execution is reported as failed: when the execution of a
\* command of a type the agent knows fails on the machine, the executor
\* raises nothing, and the result the agent posts reports the failure.
C26_FailureCaptured ==
    (/\ job.kind = "command"
     /\ job.stage \in {"ran", "posted"}
     /\ Knows(job.a, job.cmd.type)
     /\ Failed(job))
    => ReportsFailure(job.body)

\* The body reports a success, in agent.py's words or in agent_worker's.
ReportsSuccess(body) ==
    IF "success" \in DOMAIN body THEN body.success = TRUE
    ELSE "status" \in DOMAIN body /\ body.status = "ok"

\* The agent's command type that runs a shell command.
ShellType(a) == IF Impl(a) = "agent_py" THEN "cmd" ELSE "run_shell"

\* C27  A shell command succeeds exactly when it exits with code zero: for a
\* shell command that ran to its end, the result reports success when the
\* exit code is zero and failure when it is not, and its output is the
\* command's stdout and stderr together.
C27_ShellExitCode ==
    (/\ job.kind = "command"
     /\ job.stage \in {"ran", "posted"}
     /\ job.cmd.type = ShellType(job.a)
     /\ job.cmd.payload = "valid"
     /\ job.env.s1 \in {"zero", "nonzero"})
    => /\ job.env.s1 = "zero" => ReportsSuccess(job.body)
       /\ job.env.s1 = "nonzero" => ReportsFailure(job.body)
       /\ job.body.output = Combined

\* The launch strategies in the order of the claim, and what the machine
\* does to the i-th.
Strategies == <<"app_id", "uri", "path", "glob">>

Met(env, i) == <<env.s1, env.s2, env.s3, env.s4>>[i]

\* The agent's command type that opens Quick Assist.
AssistType(a) == IF Impl(a) = "agent_py" THEN "quick_assist" ELSE "open_quick_assist"

\* The strategies of Strategies[1 .. n] that have something to start.
Attempted(env, n) ==
    LET RECURSIVE upTo(_)
        upTo(i) == IF i = 0 THEN <<>>
                   ELSE IF Met(env, i) = "absent" THEN upTo(i - 1)
                   ELSE Append(upTo(i - 1), Strategies[i])
    IN upTo(n)

\* C28  Launch strategies, amended: Quick Assist is opened by app id, by URI,
\* by the direct path, by the glob, in this order.  The launch succeeds at
\* the first strategy that starts a process, and tries no later one; a
\* strategy that raises, or that has nothing to start (the path does not
\* exist, the glob finds no executable), is passed over; the launch fails
\* exactly when every strategy raised or had nothing to start.
\* agent_worker has the first strategy only, through os.system, which starts
\* the shell whatever comes of it.
C28_LaunchOrder ==
    (/\ job.kind = "command"
     /\ job.stage \in {"ran", "posted"}
     /\ job.cmd.type = AssistType(job.a))
    => LET starts == IF Impl(job.a) = "agent_py"
                     THEN {i \in 1 .. 4 : Met(job.env, i) \in {"zero", "nonzero"}}
                     ELSE {1}
       IN IF starts # {}
          THEN LET first == CHOOSE i \in starts : \A k \in starts : i <= k
               IN /\ ReportsSuccess(job.body)
                  /\ job.calls = IF Impl(job.a) = "agent_py"
                                 THEN Attempted(job.env, first) ELSE <<"app_id">>
          ELSE /\ ReportsFailure(job.body)
               /\ job.calls = Attempted(job.env, 4)

\* agent.py found the app id and the URI strategies raising and no System32
\* executable, and launched the executable the glob found.
C28_Witness ==
    /\ job.kind = "command"
    /\ job.stage = "ran"
    /\ job.cmd.type = "quick_assist"
    /\ job.calls = <<"app_id", "uri", "glob">>
    /\ job.body.success = TRUE

\* C28 as stated: the launch succeeds at the first strategy that does not
\* raise, and fails only when every strategy raised.
C28_FirstNotRaising ==
    (/\ job.kind = "command"
     /\ job.stage \in {"ran", "posted"}
     /\ job.cmd.type = AssistType(job.a))
    => LET notRaising == IF Impl(job.a) = "agent_py"
                         THEN {i \in 1 .. 4 : Met(job.env, i) # "raises"}
                         ELSE {1}
       IN /\ notRaising # {} => ReportsSuccess(job.body)
          /\ ReportsFailure(job.body) => notRaising = {}

\* C29  restart_service issues a service stop, then a service start, then a
\* status query, and reports success only when the query shows the service
\* running; a stop or a start that fails yields a failed result.  The third
\* outcome of the environment is the query's: zero when it shows RUNNING.
C29_RestartChecked ==
    (/\ job.kind = "command"
     /\ job.stage \in {"ran", "posted"}
     /\ job.cmd.type = "restart_service"
     /\ Knows(job.a, "restart_service")
     /\ job.cmd.payload = "valid")
    => /\ IsPrefix(job.calls, <<"sc stop", "sc start", "sc query">>)
       /\ ReportsSuccess(job.body)
             => /\ job.calls = <<"sc stop", "sc start", "sc query">>
                /\ job.env.s1 = "zero"
                /\ job.env.s2 = "zero"
                /\ job.env.s3 = "zero"
       /\ (job.env.s1 # "zero" \/ job.env.s2 # "zero") => ReportsFailure(job.body)

\* C30  Telemetry resilience: when the CPU, RAM or disk reading raises,
\* collecting does not raise (the process does not end there), and the
\* snapshot has the fields it has when every reading works, so the push of
\* the iteration is sent.
C30_TelemetryResilient ==
    job.kind = "telemetry"
    => /\ job.stage # "crashed"
       /\ job.stage \in {"collected", "pushed"}
             => DOMAIN job.body = DOMAIN Collected([job EXCEPT !.faults = {}])


====
